---------------------------- MODULE Spec2Model ----------------------------
(***************************************************************************)
(* A model of JSONFlowParser (src/NaturalLanguageToJSONFlowParser.py): the *)
(* rule-based compiler from English sentences to a JSONFlow schema.        *)
(*                                                                         *)
(* The linguistic annotator (spaCy's nlp) is external to the repository.   *)
(* A text is modelled by what the annotator returns for it: a sequence of  *)
(* sentences, each a sequence of tokens with surface text, coarse part of  *)
(* speech, lemma, dependency label and head.  The annotator is taken to be *)
(* deterministic, and to annotate a sentence on its own (the extractors'   *)
(* nlp(sent.text)) as it annotated it within the document.                 *)
(*                                                                         *)
(* Python objects are modelled with their identity: a step in              *)
(* schema["steps"] is an outer dict holding a reference to a payload dict, *)
(* and the payload dicts live in `heap`.                                   *)
(***************************************************************************)
EXTENDS Naturals, Sequences, FiniteSets, TLC

VARIABLES
    text,      \* text[p]: the sentences of the text given to parser p
    pc,        \* pc[p]: where parser p is: "none", "idle", "sentences"
    idx,       \* idx[p]: the next sentence of `for sent in doc.sents`
    schema,    \* schema[p]: self.schema of parser p
    heap,      \* the payload dicts of the step templates, by address
    origin,    \* origin[p][i]: the sentence whose extractor appended steps[i]
    results    \* results[p]: what each parse call returned, as of its return

vars == <<text, pc, idx, schema, heap, origin, results>>

---------------------------------------------------------------------------
(* Bounds of the model *)

\* The longest text, in sentences, of the sequential specification.
MaxSents == 2

\* The longest text, in sentences, of each of the two concurrent calls.
MaxConcSents == 2

\* The parse calls made on one parser instance.
MaxCalls == 2

---------------------------------------------------------------------------
(* Python strings: str.lower, str.capitalize, the `in` substring test *)

UpperChars == "ABCDEFGHIJKLMNOPQRSTUVWXYZ"
LowerChars == "abcdefghijklmnopqrstuvwxyz"

CharAt(s, i) == SubSeq(s, i, i)

\* The lower-case letter of each upper-case letter, and the converse.
ToLower ==
    [c \in {CharAt(UpperChars, i) : i \in 1..Len(UpperChars)} |->
        CharAt(LowerChars, CHOOSE i \in 1..Len(UpperChars) : CharAt(UpperChars, i) = c)]

ToUpper ==
    [c \in {CharAt(LowerChars, i) : i \in 1..Len(LowerChars)} |->
        CharAt(UpperChars, CHOOSE i \in 1..Len(LowerChars) : CharAt(LowerChars, i) = c)]

LowerChar(c) == IF c \in DOMAIN ToLower THEN ToLower[c] ELSE c

UpperChar(c) == IF c \in DOMAIN ToUpper THEN ToUpper[c] ELSE c

RECURSIVE Lower(_)
Lower(s) ==
    IF Len(s) = 0 THEN ""
    ELSE LowerChar(CharAt(s, 1)) \o Lower(SubSeq(s, 2, Len(s)))

\* str.capitalize(): the first character upper-cased, the rest lower-cased.
Capitalize(s) ==
    IF Len(s) = 0 THEN ""
    ELSE UpperChar(CharAt(s, 1)) \o Lower(SubSeq(s, 2, Len(s)))

\* sub in s
Contains(s, sub) ==
    \E i \in 1..(Len(s) + 1) :
        /\ i + Len(sub) - 1 <= Len(s)
        /\ SubSeq(s, i, i + Len(sub) - 1) = sub

---------------------------------------------------------------------------
(* The annotator's output *)

Tok(t, pos, lemma, dep, head) ==
    [text |-> t, pos |-> pos, lemma |-> lemma, dep |-> dep, head |-> head]

\* sent.text: the tokens' surface forms, separated by a blank.
RECURSIVE JoinFrom(_, _)
JoinFrom(toks, i) ==
    IF i > Len(toks) THEN ""
    ELSE IF i = Len(toks) THEN toks[i].text
    ELSE toks[i].text \o " " \o JoinFrom(toks, i + 1)

SentText(toks) == JoinFrom(toks, 1)

\* token.head
HeadOf(toks, i) == toks[toks[i].head]

\* The annotated sentences the texts of the model are made of.
Library == <<
    \* 1: an input declaration without a type token
    << Tok("Take", "VERB", "take", "ROOT", 1),
       Tok("input", "NOUN", "input", "compound", 3),
       Tok("username", "NOUN", "username", "dobj", 1) >>,
    \* 2: an input declaration with a type token and no description token
    << Tok("Input", "NOUN", "input", "compound", 2),
       Tok("age", "NOUN", "age", "ROOT", 2),
       Tok("INT", "NOUN", "int", "appos", 2) >>,
    \* 3: a Set sentence whose value names the input of sentence 1
    << Tok("Set", "VERB", "set", "compound", 2),
       Tok("result", "NOUN", "result", "ROOT", 2),
       Tok("username", "NOUN", "username", "dobj", 2) >>,
    \* 4: a second Set sentence, with another target and value
    << Tok("Assign", "VERB", "assign", "compound", 2),
       Tok("total", "NOUN", "total", "ROOT", 2),
       Tok("age", "NOUN", "age", "attr", 2) >>,
    \* 5: "set" only inside another word, and a target-less sentence
    << Tok("Reset", "VERB", "reset", "ROOT", 1),
       Tok("counter", "NOUN", "counter", "dobj", 1) >>,
    \* 6: an Assert sentence, cue before subject
    << Tok("If", "SCONJ", "if", "mark", 3),
       Tok("age", "NOUN", "age", "nsubj", 3),
       Tok("is", "AUX", "be", "ROOT", 3),
       Tok(">", "SYM", ">", "punct", 3),
       Tok("limit", "NOUN", "limit", "attr", 3) >>,
    \* 7: the same four components, subject before cue
    << Tok("age", "NOUN", "age", "nsubj", 2),
       Tok("is", "AUX", "be", "ROOT", 2),
       Tok(">", "SYM", ">", "punct", 2),
       Tok("limit", "NOUN", "limit", "attr", 2),
       Tok("check", "VERB", "check", "advcl", 2) >>,
    \* 8: an Assert sentence without a comparison-operator token
    << Tok("If", "SCONJ", "if", "mark", 3),
       Tok("age", "NOUN", "age", "nsubj", 3),
       Tok("is", "AUX", "be", "ROOT", 3),
       Tok("greater", "ADJ", "great", "acomp", 3),
       Tok("than", "ADP", "than", "prep", 4),
       Tok("limit", "NOUN", "limit", "attr", 3) >>,
    \* 9: a Log sentence
    << Tok("Log", "VERB", "log", "ROOT", 1),
       Tok("username", "NOUN", "username", "dobj", 1) >>,
    \* 10: a ForEach sentence
    << Tok("for", "ADP", "for", "prep", 4),
       Tok("each", "DET", "each", "det", 4),
       Tok("item", "NOUN", "item", "nsubj", 2),
       Tok("permissions", "NOUN", "permission", "pobj", 4) >>,
    \* 11: a context declaration without a type token, with a naming verb
    << Tok("Define", "VERB", "define", "ROOT", 1),
       Tok("variable", "NOUN", "variable", "compound", 3),
       Tok("result", "NOUN", "result", "dobj", 1) >>,
    \* 12: a context declaration of the same name with a type token
    << Tok("context", "NOUN", "context", "compound", 2),
       Tok("result", "NOUN", "result", "ROOT", 2),
       Tok("array", "NOUN", "array", "appos", 2) >>,
    \* 13: no cue, a naming verb in upper case
    << Tok("BUILD", "VERB", "build", "ROOT", 1),
       Tok("report", "NOUN", "report", "dobj", 1) >>,
    \* 14: no cue, no naming verb
    << Tok("Hello", "INTJ", "hello", "ROOT", 1),
       Tok("world", "NOUN", "world", "npadvmod", 1) >>,
    \* 15: the cues of two rules: "input" and "set"
    << Tok("Set", "VERB", "set", "compound", 3),
       Tok("input", "NOUN", "input", "compound", 3),
       Tok("limit", "NOUN", "limit", "dobj", 3) >>,
    \* 16: "if" inside "Verify" and "log": the Assert rule finds no step
    << Tok("Verify", "VERB", "verify", "ROOT", 1),
       Tok("log", "NOUN", "log", "compound", 3),
       Tok("entry", "NOUN", "entry", "dobj", 1) >>,
    \* 17: the input cue without a name: the head of "input" is a verb
    << Tok("Read", "VERB", "read", "ROOT", 1),
       Tok("input", "NOUN", "input", "dobj", 1) >>
>>

Sentences == DOMAIN Library

---------------------------------------------------------------------------
(* JSONFlowParser: its constants and the objects __init__ creates *)

Parsers == {1, 2}

\* Python's None, which no token's surface form equals.
None == "<None>"

\* The truth value of a str-or-None: None and "" are false.
Truthy(v) == v # None /\ v # ""

\* self.variable_types
variable_types == {"string", "int", "dict", "array", "bool"}

\* self.comparison_ops
comparison_ops == {"==", "!=", ">", "<", ">=", "<=", "in"}

\* A value of a step: the literal string v, or the reference {"get": v}.
Lit(v) == <<"lit", v>>
Get(v) == <<"get", v>>

\* A variant with the test inverted.
ResolveInverted(v, inputs) == IF v \notin DOMAIN inputs THEN Get(v) ELSE Lit(v)

\* {"get": v} if v in self.schema["schema"]["inputs"] else v
Resolve(v, inputs) == IF v \in DOMAIN inputs THEN Get(v) ELSE Lit(v)

\* The values of context[name]: "", [] and {}.
EmptyStr == "\"\""
EmptyList == "[]"
EmptyDict == "{}"

Kinds == {"set", "assert", "log", "forEach"}

\* A variant with one set of templates for all parsers (class-level
\* templates).
SharedTemplateAddr(p, kind) == <<1, kind>>

\* The address of the payload dict self.step_templates[kind][kind] of
\* parser p: __init__ builds the templates anew for every instance.
TemplateAddr(p, kind) == <<p, kind>>

\* The payload dicts as __init__ writes them.  The nested dicts of the
\* assert template (condition, compare) are created once with it and never
\* replaced, so that they are one object with the payload.
TemplatePayload(kind) ==
    CASE kind = "set"     -> [target |-> "", value |-> Lit("")]
      [] kind = "assert"  -> [left |-> Lit(""), op |-> "", right |-> Lit(""),
                              message |-> ""]
      [] kind = "log"     -> [level |-> "info", message |-> <<>>]
      [] kind = "forEach" -> [source |-> "", as |-> "", body |-> <<>>]

\* self.schema as __init__ writes it.
EmptySchema ==
    [function |-> "", inputs |-> <<>>, ctxTypes |-> <<>>, context |-> <<>>,
     steps |-> <<>>]

\* step = self.step_templates[kind].copy(): dict.copy is shallow, the new
\* outer dict holds the template's own payload dict.
CopyTemplate(p, kind) == [kind |-> kind, ref |-> TemplateAddr(p, kind)]

\* d[k] = v on a dict modelled as a function
Put(d, k, v) == (k :> v) @@ d

---------------------------------------------------------------------------
(* The declaration extractors.  Each `for token in doc` loop is a fold over *)
(* the tokens, in sentence order, of the loop body's if/elif chain.        *)

RECURSIVE ScanInput(_, _, _)
ScanInput(toks, i, acc) ==
    IF i > Len(toks) THEN acc
    ELSE LET low == Lower(toks[i].text) IN
         ScanInput(toks, i + 1,
            IF low = "input" /\ HeadOf(toks, i).pos = "NOUN"
            THEN [acc EXCEPT !.input_name = HeadOf(toks, i).text]
            ELSE IF low \in variable_types
            THEN [acc EXCEPT !.input_type = low]
            ELSE IF toks[i].dep = "attr" \/ toks[i].dep = "dobj"
            THEN [acc EXCEPT !.description = toks[i].text]
            ELSE acc)

\* A variant that also gives the declared name a context entry.
ParseInputIntoContext(sch, toks) ==
    LET r == ScanInput(toks, 1,
                 [input_name |-> None, input_type |-> "string", description |-> ""])
    IN  IF Truthy(r.input_name)
        THEN [sch EXCEPT !.inputs =
                 Put(@, r.input_name,
                     [type |-> r.input_type,
                      description |-> IF r.description # "" THEN r.description
                                      ELSE "Input " \o r.input_name]),
                         !.context = Put(@, r.input_name, "")]
        ELSE sch

\* _parse_input(sent): the schema it leaves
_parse_input(sch, toks) ==
    LET r == ScanInput(toks, 1,
                 [input_name |-> None, input_type |-> "string", description |-> ""])
    IN  IF Truthy(r.input_name)
        THEN [sch EXCEPT !.inputs =
                 Put(@, r.input_name,
                     [type |-> r.input_type,
                      description |-> IF r.description # "" THEN r.description
                                      ELSE "Input " \o r.input_name])]
        ELSE sch

RECURSIVE ScanContext(_, _, _)
ScanContext(toks, i, acc) ==
    IF i > Len(toks) THEN acc
    ELSE LET low == Lower(toks[i].text) IN
         ScanContext(toks, i + 1,
            IF low \in {"variable", "context"} /\ HeadOf(toks, i).pos = "NOUN"
            THEN [acc EXCEPT !.var_name = HeadOf(toks, i).text]
            ELSE IF low \in variable_types
            THEN [acc EXCEPT !.var_type = low]
            ELSE acc)

\* A variant without the array case.
ContextDefaultNoArray(var_type) ==
    IF var_type = "string" THEN EmptyStr ELSE EmptyDict

\* "" if var_type == "string" else [] if var_type == "array" else {}
ContextDefault(var_type) ==
    IF var_type = "string" THEN EmptyStr
    ELSE IF var_type = "array" THEN EmptyList
    ELSE EmptyDict

\* _parse_context(sent): the schema it leaves
_parse_context(sch, toks) ==
    LET r == ScanContext(toks, 1, [var_name |-> None, var_type |-> "string"])
    IN  IF Truthy(r.var_name)
        THEN [sch EXCEPT !.ctxTypes = Put(@, r.var_name, r.var_type),
                         !.context = Put(@, r.var_name, ContextDefault(r.var_type))]
        ELSE sch

---------------------------------------------------------------------------
(* The step extractors.  Each returns the step it built (NoStep for None)  *)
(* and the heap it leaves: the writes step[kind][...] = ... go through the *)
(* reference the copied outer dict holds.                                  *)

NoStep == [kind |-> "none", ref |-> <<>>]

RECURSIVE ScanSet(_, _, _)
ScanSet(toks, i, acc) ==
    IF i > Len(toks) THEN acc
    ELSE ScanSet(toks, i + 1,
            IF Lower(toks[i].text) \in {"set", "assign"} /\ HeadOf(toks, i).pos = "NOUN"
            THEN [acc EXCEPT !.target = HeadOf(toks, i).text]
            ELSE IF toks[i].dep = "attr" \/ toks[i].dep = "dobj"
            THEN [acc EXCEPT !.value = toks[i].text]
            ELSE acc)

\* A variant that asks for one of the two only (`or` for `and`).
SetCompleteEither(r) == Truthy(r.target) \/ Truthy(r.value)

\* if target and value:
SetComplete(r) == Truthy(r.target) /\ Truthy(r.value)

_parse_set_step(p, sch, hp, toks) ==
    LET r == ScanSet(toks, 1, [target |-> None, value |-> None])
        step == CopyTemplate(p, "set")
    IN  IF SetComplete(r)
        THEN [step |-> step,
              heap |-> [hp EXCEPT ![step.ref] =
                           [@ EXCEPT !.target = r.target,
                                     !.value = Resolve(r.value, sch.inputs)]]]
        ELSE [step |-> NoStep, heap |-> hp]

RECURSIVE ScanAssert(_, _, _)
ScanAssert(toks, i, acc) ==
    IF i > Len(toks) THEN acc
    ELSE ScanAssert(toks, i + 1,
            IF Lower(toks[i].text) \in {"if", "check"}
            THEN [acc EXCEPT !.condition = HeadOf(toks, i).text]
            ELSE IF toks[i].dep = "nsubj" /\ HeadOf(toks, i).text = acc.condition
            THEN [acc EXCEPT !.left = toks[i].text]
            ELSE IF toks[i].text \in comparison_ops
            THEN [acc EXCEPT !.op = toks[i].text]
            ELSE IF toks[i].dep = "attr" \/ toks[i].dep = "dobj"
            THEN [acc EXCEPT !.right = toks[i].text]
            ELSE acc)

\* if left and op and right:
AssertComplete(r) == Truthy(r.left) /\ Truthy(r.op) /\ Truthy(r.right)

_parse_assert_step(p, sch, hp, toks) ==
    LET r == ScanAssert(toks, 1,
                 [condition |-> None, left |-> None, op |-> None, right |-> None])
        step == CopyTemplate(p, "assert")
    IN  IF AssertComplete(r)
        THEN [step |-> step,
              heap |-> [hp EXCEPT ![step.ref] =
                           [@ EXCEPT !.left = Resolve(r.left, sch.inputs),
                                     !.op = r.op,
                                     !.right = Resolve(r.right, sch.inputs),
                                     !.message = r.left \o " " \o r.op \o " "
                                                 \o r.right \o " check failed"]]]
        ELSE [step |-> NoStep, heap |-> hp]

RECURSIVE ScanLog(_, _, _)
ScanLog(toks, i, message_parts) ==
    IF i > Len(toks) THEN message_parts
    ELSE ScanLog(toks, i + 1,
            IF toks[i].dep \in {"nsubj", "dobj", "attr"}
            THEN Append(message_parts, toks[i].text)
            ELSE message_parts)

_parse_log_step(p, sch, hp, toks) ==
    LET message_parts == ScanLog(toks, 1, <<>>)
        step == CopyTemplate(p, "log")
    IN  IF message_parts # <<>>
        THEN [step |-> step,
              heap |-> [hp EXCEPT ![step.ref] =
                           [@ EXCEPT !.message =
                               [k \in DOMAIN message_parts |->
                                   Resolve(message_parts[k], sch.inputs)]]]]
        ELSE [step |-> NoStep, heap |-> hp]

RECURSIVE ScanForEach(_, _, _)
ScanForEach(toks, i, acc) ==
    IF i > Len(toks) THEN acc
    ELSE ScanForEach(toks, i + 1,
            IF Lower(toks[i].text) \in {"each", "loop"} /\ HeadOf(toks, i).pos = "NOUN"
            THEN [acc EXCEPT !.source = HeadOf(toks, i).text]
            ELSE IF toks[i].dep = "nsubj" /\ Lower(HeadOf(toks, i).text) \in {"each", "loop"}
            THEN [acc EXCEPT !.iterator = toks[i].text]
            ELSE acc)

_parse_foreach_step(p, sch, hp, toks) ==
    LET r == ScanForEach(toks, 1, [source |-> None, iterator |-> None])
        step == CopyTemplate(p, "forEach")
    IN  IF Truthy(r.source) /\ Truthy(r.iterator)
        THEN [step |-> step,
              heap |-> [hp EXCEPT ![step.ref] =
                           [@ EXCEPT !.source = r.source,
                                     !.as = r.iterator,
                                     !.body = <<>>]]]
        ELSE [step |-> NoStep, heap |-> hp]

---------------------------------------------------------------------------
(* parse: the function name, then the sentences *)

\* doc = nlp(text): the annotated sentences of a text
Doc(t) == [k \in DOMAIN t |-> Library[t[k]]]

NamingLemmas == {"create", "build", "define", "generate"}

\* The nested loops of _generate_function_name from token j of sentence i.
RECURSIVE ScanFunctionName(_, _, _)
ScanFunctionName(doc, i, j) ==
    IF i > Len(doc) THEN "DefaultWorkflow"
    ELSE IF j > Len(doc[i]) THEN ScanFunctionName(doc, i + 1, 1)
    ELSE IF doc[i][j].pos = "VERB" /\ doc[i][j].lemma \in NamingLemmas
    THEN Capitalize(doc[i][j].text) \o "Workflow"
    ELSE ScanFunctionName(doc, i, j + 1)

\* A variant that tests the token's surface form where the code tests
\* its lemma.
RECURSIVE ScanFunctionNameBySurface(_, _, _)
ScanFunctionNameBySurface(doc, i, j) ==
    IF i > Len(doc) THEN "DefaultWorkflow"
    ELSE IF j > Len(doc[i]) THEN ScanFunctionNameBySurface(doc, i + 1, 1)
    ELSE IF doc[i][j].pos = "VERB" /\ doc[i][j].text \in NamingLemmas
    THEN Capitalize(doc[i][j].text) \o "Workflow"
    ELSE ScanFunctionNameBySurface(doc, i, j + 1)

FunctionNameBySurface(doc) == ScanFunctionNameBySurface(doc, 1, 1)

\* A variant that scans the first sentence only.
FunctionNameOfFirstSentence(doc) ==
    IF doc = <<>> THEN "DefaultWorkflow"
    ELSE ScanFunctionName(<<doc[1]>>, 1, 1)

_generate_function_name(doc) == ScanFunctionName(doc, 1, 1)

\* A variant that tests the set/assign cue before the input cue.
ClassifySetFirst(toks) ==
    LET low == Lower(SentText(toks)) IN
    IF Contains(low, "set") \/ Contains(low, "assign") THEN "set"
    ELSE IF Contains(low, "input") THEN "input"
    ELSE IF Contains(low, "if") \/ Contains(low, "check") THEN "assert"
    ELSE IF Contains(low, "log") \/ Contains(low, "print") THEN "log"
    ELSE IF Contains(low, "for each") \/ Contains(low, "loop") THEN "forEach"
    ELSE IF Contains(low, "context") \/ Contains(low, "variable") THEN "context"
    ELSE "none"

\* The if/elif chain of _process_sentences: the branch a sentence takes.
Classify(toks) ==
    LET low == Lower(SentText(toks)) IN
    IF Contains(low, "input") THEN "input"
    ELSE IF Contains(low, "set") \/ Contains(low, "assign") THEN "set"
    ELSE IF Contains(low, "if") \/ Contains(low, "check") THEN "assert"
    ELSE IF Contains(low, "log") \/ Contains(low, "print") THEN "log"
    ELSE IF Contains(low, "for each") \/ Contains(low, "loop") THEN "forEach"
    ELSE IF Contains(low, "context") \/ Contains(low, "variable") THEN "context"
    ELSE "none"

\* The branch each sentence of the library takes.
Route == [s \in Sentences |-> Classify(Library[s])]

\* A variant that puts a step that follows a ForEach step into that step's
\* body.
AppendStepIntoBody(sch, r) ==
    LET n == Len(sch.steps) IN
    IF r.step # NoStep /\ n > 0 /\ sch.steps[n].kind = "forEach"
                       /\ r.step.kind # "forEach"
    THEN [schema |-> sch,
          heap |-> [r.heap EXCEPT ![sch.steps[n].ref].body = Append(@, r.step)],
          appended |-> FALSE]
    ELSE [schema |-> IF r.step # NoStep
                     THEN [sch EXCEPT !.steps = Append(@, r.step)]
                     ELSE sch,
          heap |-> r.heap,
          appended |-> r.step # NoStep]

\* current_step = self._parse_..._step(sent)
\* if current_step: self.schema["steps"].append(current_step)
AppendStep(sch, r) ==
    [schema |-> IF r.step # NoStep
                THEN [sch EXCEPT !.steps = Append(@, r.step)]
                ELSE sch,
     heap |-> r.heap,
     appended |-> r.step # NoStep]

\* One iteration of the loop of _process_sentences, for parser p on
\* sentence s of the library: the schema and the heap it leaves.
ProcessSentence(p, sch, hp, s) ==
    LET toks == Library[s]
        branch == Route[s]
    IN  CASE branch = "input" ->
                [schema |-> _parse_input(sch, toks), heap |-> hp, appended |-> FALSE]
          [] branch = "set" -> AppendStep(sch, _parse_set_step(p, sch, hp, toks))
          [] branch = "assert" -> AppendStep(sch, _parse_assert_step(p, sch, hp, toks))
          [] branch = "log" -> AppendStep(sch, _parse_log_step(p, sch, hp, toks))
          [] branch = "forEach" -> AppendStep(sch, _parse_foreach_step(p, sch, hp, toks))
          [] branch = "context" ->
                [schema |-> _parse_context(sch, toks), heap |-> hp, appended |-> FALSE]
          [] OTHER -> [schema |-> sch, heap |-> hp, appended |-> FALSE]

\* A schema as its reader sees it: every step with the payload its
\* reference leads to.
Snapshot(sch, hp) ==
    [function |-> sch.function,
     inputs |-> sch.inputs,
     ctxTypes |-> sch.ctxTypes,
     context |-> sch.context,
     steps |-> [k \in DOMAIN sch.steps |->
                   [kind |-> sch.steps[k].kind, payload |-> hp[sch.steps[k].ref]]]]

View(p) == Snapshot(schema[p], heap)

---------------------------------------------------------------------------
(* The state machine *)

Addrs == {TemplateAddr(p, k) : p \in Parsers, k \in Kinds}

\* The heap with the templates of a newly constructed parser p.
Construct(hp, p) ==
    [a \in DOMAIN hp |->
        IF \E k \in Kinds : a = TemplateAddr(p, k)
        THEN TemplatePayload(a[2])
        ELSE hp[a]]

Texts(n) == UNION {[1..k -> Sentences] : k \in 0..n}

\* The sentences the concurrent calls' texts are made of.
ConcSentences == {1, 3, 4, 9}

ConcTexts == UNION {[1..k -> ConcSentences] : k \in 0..MaxConcSents}

\* One parser, constructed, on which parse is called up to MaxCalls
\* times with one text.
Init ==
    /\ text \in {[p \in Parsers |-> IF p = 1 THEN t ELSE <<>>] : t \in Texts(MaxSents)}
    /\ pc = [p \in Parsers |-> IF p = 1 THEN "idle" ELSE "none"]
    /\ idx = [p \in Parsers |-> 1]
    /\ schema = [p \in Parsers |-> EmptySchema]
    /\ heap = [a \in Addrs |-> TemplatePayload(a[2])]
    /\ origin = [p \in Parsers |-> <<>>]
    /\ results = [p \in Parsers |-> <<>>]

\* Two calls of generate_jsonflow_from_text, neither begun.
InitConc ==
    /\ text \in [Parsers -> ConcTexts]
    /\ pc = [p \in Parsers |-> "none"]
    /\ idx = [p \in Parsers |-> 1]
    /\ schema = [p \in Parsers |-> EmptySchema]
    /\ heap = [a \in Addrs |-> TemplatePayload(a[2])]
    /\ origin = [p \in Parsers |-> <<>>]
    /\ results = [p \in Parsers |-> <<>>]

\* parse(text), to the head of the loop over the sentences.
Parse(p) ==
    /\ pc[p] = "idle"
    /\ Len(results[p]) < MaxCalls
    /\ schema' = [schema EXCEPT
                     ![p].function = _generate_function_name(Doc(text[p]))]
    /\ idx' = [idx EXCEPT ![p] = 1]
    /\ pc' = [pc EXCEPT ![p] = "sentences"]
    /\ UNCHANGED <<text, heap, origin, results>>

\* generate_jsonflow_from_text(text): parser = JSONFlowParser(), then
\* parser.parse(text) to the head of the loop over the sentences.
Generate(p) ==
    /\ pc[p] = "none"
    /\ schema' = [schema EXCEPT
                     ![p] = [EmptySchema EXCEPT
                                !.function = _generate_function_name(Doc(text[p]))]]
    /\ heap' = Construct(heap, p)
    /\ idx' = [idx EXCEPT ![p] = 1]
    /\ pc' = [pc EXCEPT ![p] = "sentences"]
    /\ UNCHANGED <<text, origin, results>>

\* One iteration of `for sent in doc.sents`.
Sentence(p) ==
    /\ pc[p] = "sentences"
    /\ idx[p] <= Len(text[p])
    /\ LET r == ProcessSentence(p, schema[p], heap, text[p][idx[p]]) IN
        /\ schema' = [schema EXCEPT ![p] = r.schema]
        /\ heap' = r.heap
        /\ origin' = [origin EXCEPT
                         ![p] = IF r.appended
                                THEN Append(@, [call |-> Len(results[p]) + 1,
                                                sent |-> idx[p]])
                                ELSE @]
    /\ idx' = [idx EXCEPT ![p] = @ + 1]
    /\ UNCHANGED <<text, pc, results>>

\* return self.schema
Return(p) ==
    /\ pc[p] = "sentences"
    /\ idx[p] > Len(text[p])
    /\ results' = [results EXCEPT ![p] = Append(@, View(p))]
    /\ pc' = [pc EXCEPT ![p] = "idle"]
    /\ UNCHANGED <<text, idx, schema, heap, origin>>

Next == Parse(1) \/ Sentence(1) \/ Return(1)

Spec == Init /\ [][Next]_vars

NextConc == \E p \in Parsers : Generate(p) \/ Sentence(p) \/ Return(p)

SpecConc == InitConc /\ [][NextConc]_vars

---------------------------------------------------------------------------
(* Vocabulary of the properties *)

\* Parser p has just run one iteration of the loop over the sentences.
SentenceStep(p) == pc[p] = "sentences" /\ idx'[p] = idx[p] + 1

\* The sentence that iteration was given.
Current(p) == text[p][idx[p]]

\* The parse call parser p is in, or will make next.
CallNo(p) == Len(results[p]) + 1

\* The lower-cased text of each sentence of the library.
SentLower == [s \in Sentences |-> Lower(SentText(Library[s]))]

\* The classifier's rules in their priority order, each with its cues.
CueRules == <<
    [rule |-> "input",   cues |-> {"input"}],
    [rule |-> "set",     cues |-> {"set", "assign"}],
    [rule |-> "assert",  cues |-> {"if", "check"}],
    [rule |-> "log",     cues |-> {"log", "print"}],
    [rule |-> "forEach", cues |-> {"for each", "loop"}],
    [rule |-> "context", cues |-> {"context", "variable"}] >>

Matches(s, n) == \E c \in CueRules[n].cues : Contains(SentLower[s], c)

\* The first rule, in priority order, with a cue in sentence s.
TopRule ==
    [s \in Sentences |->
        IF \E n \in DOMAIN CueRules : Matches(s, n)
        THEN CueRules[CHOOSE n \in DOMAIN CueRules :
                          /\ Matches(s, n)
                          /\ \A m \in 1..(n - 1) : ~Matches(s, m)].rule
        ELSE "none"]

\* What the token loops of the step extractors find in each sentence.
SetValueToken ==
    [s \in Sentences |->
        ScanSet(Library[s], 1, [target |-> None, value |-> None]).value]
AssertTokens ==
    [s \in Sentences |->
        ScanAssert(Library[s], 1,
            [condition |-> None, left |-> None, op |-> None, right |-> None])]
LogTokens == [s \in Sentences |-> ScanLog(Library[s], 1, <<>>)]

\* Token i of sentence s is a cue of the given words with a noun head.
NounHeaded(s, i, words) ==
    Lower(Library[s][i].text) \in words /\ HeadOf(Library[s], i).pos = "NOUN"

\* Sentence s has the components the extractor of `kind` requires.
HasComponents(kind, s) ==
    LET toks == Library[s] IN
    CASE kind = "set" ->
            /\ \E i \in DOMAIN toks : NounHeaded(s, i, {"set", "assign"})
            /\ \E i \in DOMAIN toks :
                  /\ ~NounHeaded(s, i, {"set", "assign"})
                  /\ toks[i].dep \in {"attr", "dobj"}
      [] kind = "assert" ->
            /\ Truthy(AssertTokens[s].left)
            /\ Truthy(AssertTokens[s].op)
            /\ Truthy(AssertTokens[s].right)
      [] kind = "log" ->
            \E i \in DOMAIN toks : toks[i].dep \in {"nsubj", "dobj", "attr"}
      [] kind = "forEach" ->
            /\ \E i \in DOMAIN toks : NounHeaded(s, i, {"each", "loop"})
            /\ \E i \in DOMAIN toks :
                  /\ ~NounHeaded(s, i, {"each", "loop"})
                  /\ toks[i].dep = "nsubj"
                  /\ Lower(HeadOf(toks, i).text) \in {"each", "loop"}
      [] OTHER -> FALSE

---------------------------------------------------------------------------
(* C1 *)

\* C1: within one parse call, once a step is appended to steps, no later
\* sentence changes its payload (target/value, compare/message, log
\* message, source/as).
C1_AppendedStepsImmutable ==
    [][\A p \in Parsers :
          SentenceStep(p) =>
              \A k \in DOMAIN schema[p].steps :
                  origin[p][k].call = CallNo(p)
                      => heap'[schema[p].steps[k].ref] = heap[schema[p].steps[k].ref]]_vars

---------------------------------------------------------------------------
(* C2 *)

\* Sentence s is routed to the input-declaration extractor and declares n.
DeclaresInput(s, n) ==
    /\ TopRule[s] = "input"
    /\ \E i \in DOMAIN Library[s] :
          /\ Lower(Library[s][i].text) = "input"
          /\ HeadOf(Library[s], i).pos = "NOUN"
          /\ HeadOf(Library[s], i).text = n

\* What the claim has a value token n of sentence i of parser p's text
\* resolve to.
ExpectedValue(p, i, n) ==
    IF \E j \in 1..(i - 1) : DeclaresInput(text[p][j], n) THEN Get(n) ELSE Lit(n)

\* C2: in the schema parse returns, the value of a Set/Assert/Log step with
\* value token N is {get: N} if an input declaration of N precedes the
\* step's sentence, and the literal N otherwise.  Stated of the first call
\* on a new parser.
C2_ReferenceIffDeclaredBefore ==
    \A p \in Parsers :
        Len(results[p]) >= 1 =>
            \A k \in DOMAIN results[p][1].steps :
                LET st == results[p][1].steps[k]
                    i == origin[p][k].sent
                    s == text[p][i]
                IN  /\ st.kind = "set" =>
                          st.payload.value = ExpectedValue(p, i, SetValueToken[s])
                    /\ st.kind = "assert" =>
                          /\ st.payload.left = ExpectedValue(p, i, AssertTokens[s].left)
                          /\ st.payload.right = ExpectedValue(p, i, AssertTokens[s].right)
                    /\ st.kind = "log" =>
                          st.payload.message =
                              [m \in DOMAIN LogTokens[s] |->
                                  ExpectedValue(p, i, LogTokens[s][m])]

---------------------------------------------------------------------------
(* C3 *)

\* C3: two parse calls on the same text return the same function,
\* schemaSpec, context and steps, also when both are made on one parser.
C3_ParseIdempotent ==
    \A p \in Parsers :
        Len(results[p]) >= 2 => results[p][2] = results[p][1]

---------------------------------------------------------------------------
(* C4 *)

NoCueText(t) == \A k \in DOMAIN t : TopRule[t[k]] = "none"

HasNamingVerb(t) ==
    \E k \in DOMAIN t : \E j \in DOMAIN Library[t[k]] :
        /\ Library[t[k]][j].pos = "VERB"
        /\ Library[t[k]][j].lemma \in {"create", "build", "define", "generate"}

\* C4 as claimed: for a text with no cue substring in any sentence, parse
\* returns empty steps and the function DefaultWorkflow.
C4_NoCueDefaultWorkflow ==
    \A p \in Parsers :
        NoCueText(text[p]) =>
            \A c \in DOMAIN results[p] :
                /\ results[p][c].steps = <<>>
                /\ results[p][c].function = "DefaultWorkflow"

\* C4 as amended: for a text with no cue substring in any sentence, parse
\* appends no step and declares nothing, so that steps is empty when it was
\* empty before the call, and the function is DefaultWorkflow exactly when
\* no token of the text is a verb with lemma create, build, define or
\* generate.
C4_NoCueNoStep ==
    \A p \in Parsers :
        NoCueText(text[p]) =>
            /\ schema[p].steps = <<>>
            /\ schema[p].inputs = <<>>
            /\ schema[p].context = <<>>
            /\ \A c \in DOMAIN results[p] :
                  /\ results[p][c].steps = <<>>
                  /\ results[p][c].function = "DefaultWorkflow"
                        <=> ~HasNamingVerb(text[p])

\* A text without cues and with a naming verb has been parsed.
C4_Witness ==
    /\ text[1] = <<14, 13>>
    /\ Len(results[1]) = 1
    /\ results[1][1].steps = <<>>
    /\ results[1][1].function = "BuildWorkflow"

---------------------------------------------------------------------------
(* C5 *)

LastStep(p) == schema[p].steps[Len(schema[p].steps)]

\* C5: a sentence is handled by the extractor of the first rule, in the
\* order input; set/assign; if/check; log/print; for each/loop;
\* context/variable, with a cue in its lower-cased text, and by no other:
\* under a declaration rule the schema is what that rule's extractor
\* leaves; under a step rule one step of that rule's kind is appended if
\* the sentence has the rule's components, and nothing otherwise; only that
\* rule's payload is written; a sentence without a cue changes nothing.
C5_FirstMatchingRuleOnly ==
    [][\A p \in Parsers :
          SentenceStep(p) =>
              LET rule == TopRule[Current(p)]
                  n == Len(schema[p].steps)
              IN  /\ Len(schema'[p].steps) \in {n, n + 1}
                  /\ SubSeq(schema'[p].steps, 1, n) = schema[p].steps
                  /\ Len(schema'[p].steps) = n + 1 =>
                        /\ rule \in Kinds
                        /\ LastStep(p)'.kind = rule
                  /\ \A a \in DOMAIN heap :
                        heap'[a] # heap[a] => rule \in Kinds /\ a = <<p, rule>>
                  /\ schema'[p].inputs # schema[p].inputs => rule = "input"
                  /\ (\/ schema'[p].ctxTypes # schema[p].ctxTypes
                      \/ schema'[p].context # schema[p].context) => rule = "context"
                  /\ schema'[p].function = schema[p].function
                  /\ rule = "none" => schema'[p] = schema[p] /\ heap' = heap
                  /\ rule = "input" =>
                        schema'[p] = _parse_input(schema[p], Library[Current(p)])
                  /\ rule = "context" =>
                        schema'[p] = _parse_context(schema[p], Library[Current(p)])
                  /\ rule \in Kinds =>
                        (Len(schema'[p].steps) = n + 1
                            <=> HasComponents(rule, Current(p)))]_vars

\* A sentence with the cues of two rules ("Set input limit") has been
\* handled by the input rule alone, and one whose first rule found no step
\* ("Verify log entry") has been skipped.
C5_Witness ==
    /\ text[1] = <<15, 16>>
    /\ pc[1] = "sentences"
    /\ idx[1] = 3
    /\ DOMAIN schema[1].inputs = {"limit"}
    /\ schema[1].steps = <<>>

---------------------------------------------------------------------------
(* C6 *)

\* The default value of each type tag.
TypeDefault ==
    [t \in {"string", "int", "dict", "array", "bool"} |->
        CASE t = "string" -> EmptyStr
          [] t = "array"  -> EmptyList
          [] OTHER        -> EmptyDict]

ContextMirrorsTypes ==
    \A p \in Parsers :
        /\ DOMAIN schema[p].context = DOMAIN schema[p].ctxTypes
        /\ \A n \in DOMAIN schema[p].ctxTypes :
              /\ schema[p].ctxTypes[n] \in DOMAIN TypeDefault
              /\ schema[p].context[n] = TypeDefault[schema[p].ctxTypes[n]]

HasTypeToken(s) ==
    \E i \in DOMAIN Library[s] :
        Lower(Library[s][i].text) \in {"string", "int", "dict", "array", "bool"}

\* A sentence without a type token leaves every type tag it writes "string".
UntypedDeclaresString ==
    \A p \in Parsers :
        SentenceStep(p) /\ ~HasTypeToken(Current(p)) =>
            \A n \in DOMAIN schema'[p].ctxTypes :
                (\/ n \notin DOMAIN schema[p].ctxTypes
                 \/ schema'[p].ctxTypes[n] # schema[p].ctxTypes[n])
                    => schema'[p].ctxTypes[n] = "string"

---------------------------------------------------------------------------
(* C7 *)

\* The places <<sentence, token>> of the naming verbs of a text.
NamingPlaces(t) ==
    {pl \in UNION {{<<k, j>> : j \in DOMAIN Library[t[k]]} : k \in DOMAIN t} :
        /\ Library[t[pl[1]]][pl[2]].pos = "VERB"
        /\ Library[t[pl[1]]][pl[2]].lemma \in {"create", "build", "define", "generate"}}

Before(a, b) == a[1] < b[1] \/ (a[1] = b[1] /\ a[2] <= b[2])

\* The function name the claim gives a text.
NameOf(t) ==
    IF NamingPlaces(t) = {} THEN "DefaultWorkflow"
    ELSE LET first == CHOOSE a \in NamingPlaces(t) :
                          \A b \in NamingPlaces(t) : Before(a, b)
         IN  Capitalize(Library[t[first[1]]][first[2]].text) \o "Workflow"

\* C7: from the start of the loop over the sentences on, and in what parse
\* returns, function is the capitalized surface form of the first verb, in
\* document order, with lemma create, build, define or generate, followed
\* by "Workflow", and "DefaultWorkflow" exactly when there is none,
\* whatever extractor the verb's sentence is routed to.
C7_FunctionName ==
    \A p \in Parsers :
        /\ pc[p] = "sentences" => schema[p].function = NameOf(text[p])
        /\ \A c \in DOMAIN results[p] :
              /\ results[p][c].function = NameOf(text[p])
              /\ results[p][c].function = "DefaultWorkflow"
                    <=> NamingPlaces(text[p]) = {}

\* The naming verb stands in the second sentence, which is routed to the
\* context-declaration extractor.
C7_Witness ==
    /\ text[1] = <<9, 11>>
    /\ Len(results[1]) = 1
    /\ results[1][1].function = "DefineWorkflow"
    /\ TopRule[11] = "context"

---------------------------------------------------------------------------
(* C8 *)

\* Parser p run alone on the first n sentences of text t: its schema and
\* the heap, from a newly constructed parser.
RECURSIVE RunFrom(_, _, _, _, _, _)
RunFrom(p, sch, hp, t, i, n) ==
    IF i > n THEN Snapshot(sch, hp)
    ELSE LET r == ProcessSentence(p, sch, hp, t[i])
         IN  RunFrom(p, r.schema, r.heap, t, i + 1, n)

Alone(p, t, n) ==
    RunFrom(p, [EmptySchema EXCEPT !.function = NameOf(t)],
            [a \in Addrs |-> TemplatePayload(a[2])], t, 1, n)

StepRefs(p) == {schema[p].steps[k].ref : k \in DOMAIN schema[p].steps}

\* C8: two generate_jsonflow_from_text calls interleaved sentence by
\* sentence: each has, after each of its sentences and at its return, the
\* function, inputs, context and steps it has when run alone, and no step of
\* one refers to a payload a step of the other refers to.
C8_ConcurrentCallsIsolated ==
    /\ \A p \in Parsers :
          /\ pc[p] = "sentences" => View(p) = Alone(p, text[p], idx[p] - 1)
          /\ \A c \in DOMAIN results[p] :
                results[p][c] = Alone(p, text[p], Len(text[p]))
    /\ \A p, q \in Parsers : p # q => StepRefs(p) \cap StepRefs(q) = {}

\* Both calls are within their loops, each holding a Set step of its own.
C8_Witness ==
    /\ text[1] = <<1, 3>> /\ text[2] = <<4, 9>>
    /\ pc[1] = "sentences" /\ pc[2] = "sentences"
    /\ idx[1] = 3 /\ idx[2] = 2
    /\ View(1).steps = <<[kind |-> "set",
                          payload |-> [target |-> "result", value |-> Get("username")]]>>
    /\ View(2).steps = <<[kind |-> "set",
                          payload |-> [target |-> "total", value |-> Lit("age")]]>>

---------------------------------------------------------------------------
(* C9 *)

\* A value: a literal or a reference, of a non-empty name.
FormedValue(v) == v[1] \in {"lit", "get"} /\ Truthy(v[2])

FormedStep(st) ==
    CASE st.kind = "set" ->
            Truthy(st.payload.target) /\ FormedValue(st.payload.value)
      [] st.kind = "assert" ->
            /\ FormedValue(st.payload.left)
            /\ st.payload.op \in {"==", "!=", ">", "<", ">=", "<=", "in"}
            /\ FormedValue(st.payload.right)
            /\ st.payload.message =
                  st.payload.left[2] \o " " \o st.payload.op \o " "
                      \o st.payload.right[2] \o " check failed"
      [] st.kind = "log" ->
            /\ st.payload.message # <<>>
            /\ \A m \in DOMAIN st.payload.message : FormedValue(st.payload.message[m])
      [] st.kind = "forEach" ->
            Truthy(st.payload.source) /\ Truthy(st.payload.as)
      [] OTHER -> FALSE

\* C9: in every state every element of steps is fully formed (Set: target
\* and value; Assert: left, op among the comparison operators, right, and
\* the message "{left} {op} {right} check failed"; Log: a non-empty
\* message; ForEach: source and as), and was appended for a sentence that
\* has every component its extractor requires.
C9_NoPartialSteps ==
    \A p \in Parsers :
        \A k \in DOMAIN schema[p].steps :
            /\ FormedStep(View(p).steps[k])
            /\ HasComponents(schema[p].steps[k].kind, text[p][origin[p][k].sent])

\* A sentence without an operator token has appended nothing, the next has
\* appended an Assert step.
C9_Witness ==
    /\ text[1] = <<8, 6>>
    /\ idx[1] = 3
    /\ origin[1] = <<[call |-> 1, sent |-> 2]>>
    /\ View(1).steps = <<[kind |-> "assert",
                          payload |-> [left |-> Lit("age"), op |-> ">",
                                       right |-> Lit("limit"),
                                       message |-> "age > limit check failed"]]>>

---------------------------------------------------------------------------
(* C10 *)

\* Sentence s holds the four components of an Assert, in whatever order: a
\* cue token, a nominal subject whose head's surface is that of the cue's
\* head, a comparison-operator token, a direct-object or attribute token.
HasFourComponents(s) ==
    LET toks == Library[s] IN
    \E c, sb, o, r \in DOMAIN toks :
        /\ Cardinality({c, sb, o, r}) = Cardinality({1, 2, 3, 4})
        /\ Lower(toks[c].text) \in {"if", "check"}
        /\ toks[sb].dep = "nsubj"
        /\ HeadOf(toks, sb).text = HeadOf(toks, c).text
        /\ toks[o].text \in {"==", "!=", ">", "<", ">=", "<=", "in"}
        /\ toks[r].dep \in {"attr", "dobj"}

\* C10: the Assert extractor yields a step for a sentence exactly when the
\* sentence holds the four components, in any order.  Stated of the
\* sentences the first parse call has handled.
C10_AssertAnyOrder ==
    \A p \in Parsers :
        pc[p] = "sentences" /\ results[p] = <<>> =>
            \A i \in 1..(idx[p] - 1) :
                TopRule[text[p][i]] = "assert" =>
                    ((\E k \in DOMAIN origin[p] : origin[p][k].sent = i)
                        <=> HasFourComponents(text[p][i]))

---------------------------------------------------------------------------
(* C11 *)

\* Sentence s has a token "input" with a noun head: an input name is found.
InputNameFound(s) == \E i \in DOMAIN Library[s] : NounHeaded(s, i, {"input"})

DeclarationFrame ==
    \A p \in Parsers :
        SentenceStep(p) =>
            LET rule == TopRule[Current(p)] IN
            /\ rule = "input" =>
                  /\ schema'[p].steps = schema[p].steps
                  /\ heap' = heap
                  /\ schema'[p].ctxTypes = schema[p].ctxTypes
                  /\ schema'[p].context = schema[p].context
                  /\ schema'[p].inputs # schema[p].inputs => InputNameFound(Current(p))
            /\ rule = "context" =>
                  /\ schema'[p].steps = schema[p].steps
                  /\ heap' = heap
                  /\ schema'[p].inputs = schema[p].inputs

\* C11: a sentence routed to the input-declaration extractor leaves steps
\* (and the steps' payloads), schemaSpec.context and context unchanged, and
\* changes schemaSpec.inputs only if an input name was found; a sentence
\* routed to the context-declaration extractor leaves steps and
\* schemaSpec.inputs unchanged.
C11_DeclarationsTouchOwnTables == [][DeclarationFrame]_vars

\* An input declaration and a context declaration have both been handled.
C11_Witness ==
    /\ text[1] = <<1, 11>>
    /\ idx[1] = 3
    /\ results[1] = <<>>
    /\ DOMAIN schema[1].inputs = {"username"}
    /\ DOMAIN schema[1].ctxTypes = {"result"}
    /\ DOMAIN schema[1].context = {"result"}
    /\ schema[1].steps = <<>>

---------------------------------------------------------------------------
(* C12 *)

---------------------------------------------------------------------------
(* C13 *)

\* The values of a step as a reader sees it: a Set's value, an Assert's
\* left and right, the parts of a Log's message.
StepValues(st) ==
    CASE st.kind = "set" -> {st.payload.value}
      [] st.kind = "assert" -> {st.payload.left, st.payload.right}
      [] st.kind = "log" -> {st.payload.message[m] : m \in DOMAIN st.payload.message}
      [] OTHER -> {}

\* The names the references of a schema's steps point to.
ReferredNames(snap) ==
    UNION {{v[2] : v \in {w \in StepValues(snap.steps[k]) : w[1] = "get"}} :
              k \in DOMAIN snap.steps}

NoDanglingReference ==
    \A p \in Parsers :
        /\ ReferredNames(View(p)) \subseteq DOMAIN schema[p].inputs
        /\ \A c \in DOMAIN results[p] :
              ReferredNames(results[p][c]) \subseteq DOMAIN results[p][c].inputs

InputKeysKept ==
    \A p \in Parsers : DOMAIN schema[p].inputs \subseteq DOMAIN schema'[p].inputs

\* C13: in every state of a parse every {get: name} value of a Set, Assert
\* or Log step names a key of schemaSpec.inputs, no step removes an input
\* key, and so every returned schema has the property too.
C13_NoDanglingReferences == []NoDanglingReference /\ [][InputKeysKept]_vars

\* A Set step refers to an input declared by the sentence before it.
C13_Witness ==
    /\ text[1] = <<1, 3>>
    /\ idx[1] = 3
    /\ results[1] = <<>>
    /\ DOMAIN schema[1].inputs = {"username"}
    /\ ReferredNames(View(1)) = {"username"}

============================================================================
